---- MODULE Spec2Model ----
(***************************************************************************)
(* Model of the three SP1 guest programs of xerolend's zkproof-service:    *)
(*   sp1-programs/collateral-value, sp1-programs/loan-amount and           *)
(*   sp1-programs/reputation.                                              *)
(* Each program is a separate binary whose main() reads one witness from   *)
(* the host, computes a predicate and a SHA-256 commitment check, and      *)
(* commits one public output.  A behaviour of Spec is one process          *)
(* lifetime of one of the three programs.                                  *)
(*                                                                         *)
(* Strings are sequences of one-character strings.  SHA-256 followed by    *)
(* lowercase-hex formatting is modelled as an injective map of the bytes   *)
(* absorbed by the hasher (collision resistance is idealised); what the    *)
(* model keeps exactly is WHICH bytes are absorbed, and in which order.    *)
(* f32 arithmetic is modelled bit-exactly (24-bit significand, round to    *)
(* nearest, ties to even) for the operand range the model uses.            *)
(***************************************************************************)
EXTENDS Integers, Sequences, FiniteSets, TLC

VARIABLES program, pc, input, locals, output, reads, commits

vars == <<program, pc, input, locals, output, reads, commits>>

-----------------------------------------------------------------------------
(* Bounds of the model *)

\* the secret u64 values (collateral_value, loan_amount) range over 0..MaxValue;
\* the public limits (min_value, min_amount, max_amount) lie at both ends of it
MaxValue == 12
\* loan histories of the reputation program have at most MaxHist records
MaxHist == 2
\* histories handed to calculate_reputation alone have at most MaxLongHist records
\* (must stay below 128 so that the f32 emulation fits TLC's 32-bit integers)
MaxLongHist == 100

-----------------------------------------------------------------------------
(* Strings and decimal rendering *)

DigitChars == <<"0", "1", "2", "3", "4", "5", "6", "7", "8", "9">>

\* u64::to_string / u32::to_string: canonical decimal text, no leading zeros
RECURSIVE to_string(_)
to_string(n) ==
    IF n < 10 THEN <<DigitChars[n + 1]>>
    ELSE to_string(n \div 10) \o <<DigitChars[(n % 10) + 1]>>

-----------------------------------------------------------------------------
(* sha2::Sha256: the hasher's state is the byte string absorbed so far *)

Sha256_new == <<>>

Sha256_update(hasher, data) == hasher \o data

\* format!("{:x}", hasher.finalize()): the digest text, an injective image of
\* the absorbed bytes; the tag keeps it apart from every string that is not
\* the output of the hash.
Sha256_finalize_hex(hasher) == <<"sha256:">> \o hasher

-----------------------------------------------------------------------------
(* f32 arithmetic.  A float is [m, e] standing for m / 2^e, 0 <= m < 2^24.  *)

F32_SIG == 2^24

RoundHalfEven(num, den) ==
    LET q == num \div den
        r == num % den
    IN  IF 2 * r > den \/ (2 * r = den /\ q % 2 = 1) THEN q + 1 ELSE q

F32Renorm(m, e) ==
    IF m = F32_SIG THEN [m |-> F32_SIG \div 2, e |-> e - 1] ELSE [m |-> m, e |-> e]

\* k + (least j with num * 2^j / den >= 2^23)
RECURSIVE F32ScaleUp(_, _, _)
F32ScaleUp(num, den, k) ==
    IF num >= den * (F32_SIG \div 2) THEN k ELSE F32ScaleUp(2 * num, den, k + 1)

\* s + (least j with p / 2^j < 2^24)
RECURSIVE F32ScaleDown(_, _)
F32ScaleDown(p, s) ==
    IF p < F32_SIG THEN s ELSE F32ScaleDown(p \div 2, s + 1)

\* `n as f32` for a usize below 2^24: exact
usize_as_f32(n) == [m |-> n, e |-> 0]

\* x / y, y # 0, correctly rounded
F32Div(x, y) ==
    IF x.m = 0 THEN [m |-> 0, e |-> 0]
    ELSE LET k == F32ScaleUp(x.m, y.m, 0)
         IN  F32Renorm(RoundHalfEven(x.m * (2^k), y.m), k + x.e - y.e)

\* x * y, correctly rounded
F32Mul(x, y) ==
    LET p == x.m * y.m
        s == F32ScaleDown(p, 0)
    IN  F32Renorm(RoundHalfEven(p, 2^s), x.e + y.e - s)

\* `x as u32`: truncation toward zero
f32_as_u32(x) ==
    IF x.e >= 0 THEN x.m \div (2^(x.e)) ELSE x.m * (2^(0 - x.e))

-----------------------------------------------------------------------------
(* The functions of the three programs *)

compute_commitment_collateral(value, salt) ==
    Sha256_finalize_hex(Sha256_update(Sha256_update(Sha256_new, value), salt))

\* variant: a separator byte between the two parts
compute_commitment_loan_Separated(value, salt) ==
    Sha256_finalize_hex(
        Sha256_update(Sha256_update(Sha256_update(Sha256_new, value), <<":">>), salt))

compute_commitment_loan(value, salt) ==
    Sha256_finalize_hex(Sha256_update(Sha256_update(Sha256_new, value), salt))

compute_commitment_reputation(score, nullifier, salt) ==
    Sha256_finalize_hex(
        Sha256_update(Sha256_update(Sha256_update(Sha256_new, score), nullifier), salt))

\* history.iter().filter(|l| l.repaid).count()
repaid_count(history) == Cardinality({i \in 1..Len(history) : history[i].repaid})

\* variant: an empty history counts as a perfect record
calculate_reputation_EmptyIsPerfect(history) ==
    IF Len(history) = 0 THEN 100
    ELSE f32_as_u32(
            F32Mul(F32Div(usize_as_f32(repaid_count(history)),
                          usize_as_f32(Len(history))),
                   [m |-> 100, e |-> 0]))

RECURSIVE SumAmounts(_, _)
SumAmounts(history, onlyRepaid) ==
    IF Len(history) = 0 THEN 0
    ELSE (IF onlyRepaid /\ ~history[1].repaid THEN 0 ELSE history[1].amount)
         + SumAmounts(Tail(history), onlyRepaid)

\* variant: the score weighs each record by its amount
calculate_reputation_AmountWeighted(history) ==
    IF Len(history) = 0 THEN 0
    ELSE (SumAmounts(history, TRUE) * 100) \div SumAmounts(history, FALSE)

calculate_reputation(history) ==
    IF Len(history) = 0 THEN 0
    ELSE f32_as_u32(
            F32Mul(F32Div(usize_as_f32(repaid_count(history)),
                          usize_as_f32(Len(history))),
                   [m |-> 100, e |-> 0]))

-----------------------------------------------------------------------------
(* Witnesses the host can supply *)

Values == 0..MaxValue

Limits == {0, 1, MaxValue - 1, MaxValue, MaxValue + 1}

Salts == {<<"3", "4">>, <<"2", "3", "4">>, <<"a", "b", "c">>}

\* a claimed commitment is any string: digests of some byte strings, and a
\* string that is no digest at all
ValueCommitments ==
    { Sha256_finalize_hex(<<"1", "2", "3", "4">>),
      Sha256_finalize_hex(<<"1", "2", "a", "b", "c">>),
      <<"z", "z">> }

CollateralInputs ==
    [commitment : ValueCommitments, collateral_value : Values,
     min_value : Limits, salt : Salts]

AmountInputs ==
    [commitment : ValueCommitments, loan_amount : Values,
     min_amount : Limits, max_amount : Limits, salt : Salts]

\* a history is given by its repaid flags, in order, and one of two ways of
\* filling in loan_id and amount
HistoryOf(flags, relabel) ==
    [i \in 1..Len(flags) |->
        [loan_id |-> IF relabel THEN 100 + i ELSE i,
         amount |-> IF relabel THEN 20 ELSE 10 * i,
         repaid |-> flags[i]]]

Histories ==
    { HistoryOf(f, l) : f \in UNION { [1..n -> BOOLEAN] : n \in 0..MaxHist },
                        l \in BOOLEAN }

UserScores == {0, 5, 50, 101}

Thresholds == {0, 50, 51, 101}

Nullifiers == {<<>>, <<"0">>, <<"0", "4">>}

ReputationSalts == {<<>>, <<"4">>}

ReputationCommitments ==
    { Sha256_finalize_hex(<<"5", "0", "4">>),
      Sha256_finalize_hex(<<"0", "0", "4">>),
      <<"z", "z">> }

ReputationInputs ==
    [commitment : ReputationCommitments, nullifier : Nullifiers,
     user_score : UserScores, threshold : Thresholds,
     loan_history : Histories, salt : ReputationSalts]

\* n records of which the first r are repaid
LongHistory(n, r) ==
    [i \in 1..n |-> [loan_id |-> i, amount |-> 10, repaid |-> (i <= r)]]

LongHistories == { LongHistory(n, r) : n \in 0..MaxLongHist, r \in 0..MaxLongHist }

None == [none |-> TRUE]

-----------------------------------------------------------------------------
(* main() of each program, from the witness read to the output committed *)

\* variant: strict lower bound
CollateralMain_StrictGreater(w) ==
    LET is_valid == w.collateral_value > w.min_value
        computed_commitment ==
            compute_commitment_collateral(to_string(w.collateral_value), w.salt)
        commitment_valid == computed_commitment = w.commitment
    IN  [locals |-> [is_valid |-> is_valid,
                     computed_commitment |-> computed_commitment,
                     commitment_valid |-> commitment_valid],
         output |-> [commitment |-> w.commitment,
                     min_value |-> w.min_value,
                     is_valid |-> (is_valid /\ commitment_valid)]]

\* variant: the output echoes the recomputed commitment
CollateralMain_EchoComputed(w) ==
    LET is_valid == w.collateral_value >= w.min_value
        computed_commitment ==
            compute_commitment_collateral(to_string(w.collateral_value), w.salt)
        commitment_valid == computed_commitment = w.commitment
    IN  [locals |-> [is_valid |-> is_valid,
                     computed_commitment |-> computed_commitment,
                     commitment_valid |-> commitment_valid],
         output |-> [commitment |-> computed_commitment,
                     min_value |-> w.min_value,
                     is_valid |-> (is_valid /\ commitment_valid)]]

\* variant: the hash also absorbs min_value
CollateralMain_BindsMinValue(w) ==
    LET is_valid == w.collateral_value >= w.min_value
        computed_commitment ==
            compute_commitment_collateral(
                to_string(w.collateral_value) \o to_string(w.min_value), w.salt)
        commitment_valid == computed_commitment = w.commitment
    IN  [locals |-> [is_valid |-> is_valid,
                     computed_commitment |-> computed_commitment,
                     commitment_valid |-> commitment_valid],
         output |-> [commitment |-> w.commitment,
                     min_value |-> w.min_value,
                     is_valid |-> (is_valid /\ commitment_valid)]]

CollateralMain(w) ==
    LET is_valid == w.collateral_value >= w.min_value
        computed_commitment ==
            compute_commitment_collateral(to_string(w.collateral_value), w.salt)
        commitment_valid == computed_commitment = w.commitment
    IN  [locals |-> [is_valid |-> is_valid,
                     computed_commitment |-> computed_commitment,
                     commitment_valid |-> commitment_valid],
         output |-> [commitment |-> w.commitment,
                     min_value |-> w.min_value,
                     is_valid |-> (is_valid /\ commitment_valid)]]

\* variant: exclusive upper bound
AmountMain_ExclusiveMax(w) ==
    LET is_in_range == w.loan_amount >= w.min_amount /\ w.loan_amount < w.max_amount
        computed_commitment ==
            compute_commitment_loan(to_string(w.loan_amount), w.salt)
        commitment_valid == computed_commitment = w.commitment
    IN  [locals |-> [is_in_range |-> is_in_range,
                     computed_commitment |-> computed_commitment,
                     commitment_valid |-> commitment_valid],
         output |-> [commitment |-> w.commitment,
                     min_amount |-> w.min_amount,
                     max_amount |-> w.max_amount,
                     is_valid |-> (is_in_range /\ commitment_valid)]]

AmountMain(w) ==
    LET is_in_range == w.loan_amount >= w.min_amount /\ w.loan_amount <= w.max_amount
        computed_commitment ==
            compute_commitment_loan(to_string(w.loan_amount), w.salt)
        commitment_valid == computed_commitment = w.commitment
    IN  [locals |-> [is_in_range |-> is_in_range,
                     computed_commitment |-> computed_commitment,
                     commitment_valid |-> commitment_valid],
         output |-> [commitment |-> w.commitment,
                     min_amount |-> w.min_amount,
                     max_amount |-> w.max_amount,
                     is_valid |-> (is_in_range /\ commitment_valid)]]

\* variant: user_score is not compared with the recomputed score
ReputationMain_NoConsistency(w) ==
    LET calculated_score == calculate_reputation(w.loan_history)
        meets_threshold == calculated_score >= w.threshold
        computed_commitment ==
            compute_commitment_reputation(to_string(w.user_score), w.nullifier, w.salt)
        commitment_valid == computed_commitment = w.commitment
    IN  [locals |-> [calculated_score |-> calculated_score,
                     meets_threshold |-> meets_threshold,
                     computed_commitment |-> computed_commitment,
                     commitment_valid |-> commitment_valid],
         output |-> [commitment |-> w.commitment,
                     nullifier |-> w.nullifier,
                     threshold |-> w.threshold,
                     is_valid |-> (meets_threshold /\ commitment_valid)]]

ReputationMain(w) ==
    LET calculated_score == calculate_reputation(w.loan_history)
        meets_threshold == calculated_score >= w.threshold
        computed_commitment ==
            compute_commitment_reputation(to_string(w.user_score), w.nullifier, w.salt)
        commitment_valid == computed_commitment = w.commitment
    IN  [locals |-> [calculated_score |-> calculated_score,
                     meets_threshold |-> meets_threshold,
                     computed_commitment |-> computed_commitment,
                     commitment_valid |-> commitment_valid],
         output |-> [commitment |-> w.commitment,
                     nullifier |-> w.nullifier,
                     threshold |-> w.threshold,
                     is_valid |-> (meets_threshold /\ commitment_valid
                                   /\ calculated_score = w.user_score)]]

-----------------------------------------------------------------------------
(* One process lifetime of one program *)

Programs == {"collateral", "loan", "reputation"}

Init ==
    /\ program \in Programs
    /\ pc = "start"
    /\ input = None
    /\ locals = None
    /\ output = None
    /\ reads = 0
    /\ commits = 0

\* sp1_zkvm::io::read::<T>()
Read(p, inputs) ==
    /\ program = p
    /\ pc = "start"
    /\ \E w \in inputs : input' = w
    /\ pc' = "read"
    /\ reads' = reads + 1
    /\ UNCHANGED <<program, locals, output, commits>>

\* the rest of main(): the checks, the output record, sp1_zkvm::io::commit(&output)
Commit(p, result) ==
    /\ program = p
    /\ pc = "read"
    /\ locals' = result.locals
    /\ output' = result.output
    /\ commits' = commits + 1
    /\ pc' = "done"
    /\ UNCHANGED <<program, input, reads>>

CollateralRead == Read("collateral", CollateralInputs)

CollateralCommit == Commit("collateral", CollateralMain(input))

AmountRead == Read("loan", AmountInputs)

\* variant: main() asserts validity and aborts instead of committing is_valid = false
AmountCommit_AssertValid ==
    /\ program = "loan"
    /\ pc = "read"
    /\ IF AmountMain(input).output.is_valid
       THEN /\ locals' = AmountMain(input).locals
            /\ output' = AmountMain(input).output
            /\ commits' = commits + 1
            /\ pc' = "done"
       ELSE /\ pc' = "abort"
            /\ UNCHANGED <<locals, output, commits>>
    /\ UNCHANGED <<program, input, reads>>

AmountCommit == Commit("loan", AmountMain(input))

ReputationRead == Read("reputation", ReputationInputs)

ReputationCommit == Commit("reputation", ReputationMain(input))

Next ==
    \/ CollateralRead
    \/ CollateralCommit
    \/ AmountRead
    \/ AmountCommit
    \/ ReputationRead
    \/ ReputationCommit

Spec == Init /\ [][Next]_vars

-----------------------------------------------------------------------------
(* calculate_reputation on its own, over histories of up to MaxLongHist records *)

InitScore ==
    /\ program = "calculate_reputation"
    /\ pc = "read"
    /\ input \in { [loan_history |-> h] : h \in LongHistories }
    /\ locals = None
    /\ output = None
    /\ reads = 1
    /\ commits = 0

ScoreCall ==
    /\ program = "calculate_reputation"
    /\ pc = "read"
    /\ locals' = [calculated_score |-> calculate_reputation(input.loan_history)]
    /\ pc' = "done"
    /\ UNCHANGED <<program, input, output, reads, commits>>

NextScore == ScoreCall

SpecScore == InitScore /\ [][NextScore]_vars

-----------------------------------------------------------------------------
(* The properties *)

Done(p) == program = p /\ pc = "done"

\* commit(parts) of the design: the hash of the parts concatenated in the given
\* order, with nothing between them
RECURSIVE ConcatParts(_)
ConcatParts(parts) ==
    IF Len(parts) = 0 THEN <<>> ELSE Head(parts) \o ConcatParts(Tail(parts))

commit(parts) == Sha256_finalize_hex(ConcatParts(parts))

\* C1: the collateral checker emits is_valid = TRUE exactly when
\* collateral_value >= min_value (inclusive) and the commitment recomputed from
\* [decimal text of collateral_value, salt] equals the claimed commitment.
C1_CollateralValidIff ==
    Done("collateral") =>
        (output.is_valid <=>
            (/\ input.collateral_value >= input.min_value
             /\ commit(<<to_string(input.collateral_value), input.salt>>)
                    = input.commitment))

\* C1 witness: the boundary collateral_value = min_value with a matching commitment
C1_Witness ==
    /\ Done("collateral")
    /\ input.collateral_value = input.min_value
    /\ output.is_valid

\* C2: the loan-amount checker emits is_valid = TRUE exactly when
\* min_amount <= loan_amount <= max_amount (both inclusive) and the commitment
\* recomputed from [decimal text of loan_amount, salt] equals the claimed one;
\* with min_amount > max_amount it is FALSE for every witness.
C2_AmountValidIff ==
    Done("loan") =>
        /\ output.is_valid <=>
              (/\ input.min_amount <= input.loan_amount
               /\ input.loan_amount <= input.max_amount
               /\ commit(<<to_string(input.loan_amount), input.salt>>)
                      = input.commitment)
        /\ input.min_amount > input.max_amount => ~output.is_valid

\* C2 witness: the boundary loan_amount = max_amount, above min_amount, accepted
C2_Witness ==
    /\ Done("loan")
    /\ input.loan_amount = input.max_amount
    /\ input.min_amount < input.max_amount
    /\ output.is_valid

\* C3: the reputation checker emits is_valid = TRUE exactly when the score
\* recomputed from loan_history meets the threshold, the commitment recomputed
\* from [decimal text of user_score, nullifier, salt] equals the claimed one,
\* and the recomputed score equals user_score.
C3_ReputationValidIff ==
    Done("reputation") =>
        (output.is_valid <=>
            (/\ calculate_reputation(input.loan_history) >= input.threshold
             /\ commit(<<to_string(input.user_score), input.nullifier, input.salt>>)
                    = input.commitment
             /\ calculate_reputation(input.loan_history) = input.user_score))

\* C3 witness: threshold and commitment checks pass, user_score differs from the
\* recomputed score, and the result is invalid
C3_Witness ==
    /\ Done("reputation")
    /\ locals.meets_threshold
    /\ locals.commitment_valid
    /\ locals.calculated_score # input.user_score
    /\ ~output.is_valid

\* C4: for every non-empty history calculate_reputation returns
\* repaid_count * 100 / total_count in exact integer (truncating) arithmetic,
\* a value in 0..100.
C4_ScoreIsExactPercentage ==
    (program = "calculate_reputation" /\ pc = "done" /\ Len(input.loan_history) > 0) =>
        /\ locals.calculated_score =
              (repaid_count(input.loan_history) * 100) \div Len(input.loan_history)
        /\ locals.calculated_score \in 0..100

\* C5: with an empty loan_history the recomputed score is 0, and is_valid can be
\* TRUE only when threshold = 0 and user_score = 0 and the commitment matches.
C5_EmptyHistory ==
    (Done("reputation") /\ input.loan_history = <<>>) =>
        /\ locals.calculated_score = 0
        /\ output.is_valid =>
              /\ input.threshold = 0
              /\ input.user_score = 0
              /\ commit(<<to_string(input.user_score), input.nullifier, input.salt>>)
                     = input.commitment
        /\ (input.threshold > 0 \/ input.user_score > 0) => ~output.is_valid

\* C5 witness: an empty history accepted (threshold 0, user_score 0)
C5_Witness ==
    /\ Done("reputation")
    /\ input.loan_history = <<>>
    /\ output.is_valid

\* C6: each result echoes the witness's public parameters unchanged, whatever
\* is_valid is; the echoed commitment is the claimed one; the result has no
\* field other than the public parameters and is_valid.
C6_PublicParametersEchoed ==
    /\ Done("collateral") =>
          /\ output.commitment = input.commitment
          /\ output.min_value = input.min_value
          /\ DOMAIN output = {"commitment", "min_value", "is_valid"}
    /\ Done("loan") =>
          /\ output.commitment = input.commitment
          /\ output.min_amount = input.min_amount
          /\ output.max_amount = input.max_amount
          /\ DOMAIN output = {"commitment", "min_amount", "max_amount", "is_valid"}
    /\ Done("reputation") =>
          /\ output.commitment = input.commitment
          /\ output.nullifier = input.nullifier
          /\ output.threshold = input.threshold
          /\ DOMAIN output = {"commitment", "nullifier", "threshold", "is_valid"}

\* C6 witness: an invalid result whose echoed commitment is the claimed one and
\* differs from the recomputed one
C6_Witness ==
    /\ Done("collateral")
    /\ ~output.is_valid
    /\ locals.computed_commitment # input.commitment
    /\ output.commitment = input.commitment

\* C7: the commitment check depends only on the secret value, the salt, the
\* nullifier (reputation) and the claimed commitment: changing min_value,
\* min_amount, max_amount, threshold or loan_history leaves commitment_valid
\* unchanged; and the digest held by main() is the one a second computation on
\* the same parts gives.
C7_CommitmentCheckDependsOnlyOnParts ==
    /\ Done("collateral") =>
          /\ \A m \in Limits :
                CollateralMain([input EXCEPT !.min_value = m]).locals.commitment_valid
                    = locals.commitment_valid
          /\ locals.computed_commitment
                = commit(<<to_string(input.collateral_value), input.salt>>)
    /\ Done("loan") =>
          /\ \A lo \in Limits, hi \in Limits :
                AmountMain([input EXCEPT !.min_amount = lo, !.max_amount = hi])
                    .locals.commitment_valid = locals.commitment_valid
          /\ locals.computed_commitment
                = commit(<<to_string(input.loan_amount), input.salt>>)
    /\ Done("reputation") =>
          /\ \A t \in Thresholds, h \in Histories :
                ReputationMain([input EXCEPT !.threshold = t, !.loan_history = h])
                    .locals.commitment_valid = locals.commitment_valid
          /\ locals.computed_commitment
                = commit(<<to_string(input.user_score), input.nullifier, input.salt>>)

\* C7 witness: a collateral commitment check that passes while the value
\* predicate fails
C7_Witness ==
    /\ Done("collateral")
    /\ locals.commitment_valid
    /\ ~locals.is_valid

\* C8: the digest is a function of the concatenated bytes only: a witness whose
\* parts are split differently but concatenate to the same bytes gets the same
\* recomputed commitment, hence the same commitment check against the same
\* claimed commitment.
C8_SplitsCollide ==
    /\ Done("collateral") =>
          \A v \in Values, s \in Salts :
              (to_string(v) \o s = to_string(input.collateral_value) \o input.salt) =>
                  CollateralMain([input EXCEPT !.collateral_value = v, !.salt = s]).locals
                      = [locals EXCEPT !.is_valid = v >= input.min_value]
    /\ Done("loan") =>
          \A v \in Values, s \in Salts :
              (to_string(v) \o s = to_string(input.loan_amount) \o input.salt) =>
                  LET other == AmountMain([input EXCEPT !.loan_amount = v, !.salt = s]).locals
                  IN  /\ other.computed_commitment = locals.computed_commitment
                      /\ other.commitment_valid = locals.commitment_valid
    /\ Done("reputation") =>
          \A u \in UserScores, n \in Nullifiers, s \in ReputationSalts :
              (to_string(u) \o n \o s
                   = to_string(input.user_score) \o input.nullifier \o input.salt) =>
                  LET other == ReputationMain([input EXCEPT !.user_score = u,
                                                            !.nullifier = n,
                                                            !.salt = s]).locals
                  IN  /\ other.computed_commitment = locals.computed_commitment
                      /\ other.commitment_valid = locals.commitment_valid

\* C8 witness: loan_amount 12 with salt "34" is accepted, and so is loan_amount 1
\* with salt "234" against the same claimed commitment
C8_Witness ==
    /\ Done("loan")
    /\ input.loan_amount = 12
    /\ input.salt = <<"3", "4">>
    /\ locals.commitment_valid
    /\ AmountMain([input EXCEPT !.loan_amount = 1, !.salt = <<"2", "3", "4">>])
           .locals.commitment_valid

\* C9: every invocation is one witness read followed by one result emission and
\* then stops; no state other than start, read, done is reached; a witness can
\* always be read and main() is defined on every witness read; invalidity shows
\* only as is_valid = FALSE.
C9_TotalOneShot ==
    /\ pc \in {"start", "read", "done"}
    /\ pc = "start" =>
          /\ reads = 0 /\ commits = 0 /\ output = None
          /\ ENABLED (CollateralRead \/ AmountRead \/ ReputationRead)
    /\ pc = "read" =>
          /\ reads = 1 /\ commits = 0 /\ output = None
          /\ program = "collateral" => CollateralMain(input).output.is_valid \in BOOLEAN
          /\ program = "loan" => AmountMain(input).output.is_valid \in BOOLEAN
          /\ program = "reputation" => ReputationMain(input).output.is_valid \in BOOLEAN
    /\ pc = "done" => reads = 1 /\ commits = 1 /\ output.is_valid \in BOOLEAN

\* C9 witness: an adversarial loan witness (min_amount > max_amount, a claimed
\* commitment that is no digest) ends in done with is_valid = FALSE
C9_Witness ==
    /\ Done("loan")
    /\ input.min_amount > input.max_amount
    /\ input.commitment = <<"z", "z">>
    /\ reads = 1
    /\ commits = 1
    /\ ~output.is_valid

\* C10: two reputation witnesses that differ only in loan_history, the two
\* histories having the same length and the same number of repaid records,
\* get the same recomputed score and the same result.
C10_ScoreOrderInsensitive ==
    Done("reputation") =>
        \A h \in Histories :
            (Len(h) = Len(input.loan_history)
                /\ repaid_count(h) = repaid_count(input.loan_history)) =>
                LET other == ReputationMain([input EXCEPT !.loan_history = h])
                IN  /\ other.locals.calculated_score = locals.calculated_score
                    /\ other.output = output

\* C10 witness: a history with a repaid and an unrepaid record of different
\* loan_id and amount
C10_Witness ==
    /\ Done("reputation")
    /\ Len(input.loan_history) = 2
    /\ input.loan_history[1].repaid
    /\ ~input.loan_history[2].repaid
    /\ input.loan_history[1].amount # input.loan_history[2].amount
    /\ input.loan_history[1].loan_id # input.loan_history[2].loan_id

====
